---- MODULE Spec2Model ----
(***************************************************************************)
(* seekaur: a command-line client for the AUR RPC interface.              *)
(*                                                                         *)
(* Strings are modelled as sequences of one-character strings, so that     *)
(* length, slicing, byte-wise comparison and percent-escaping are          *)
(* computed the way the Go code computes them.  Output written to stdout   *)
(* is a sequence of lines, each line a sequence of tokens (a token is      *)
(* either a literal piece of a format string, an escape sequence written   *)
(* "ESC[...m", or one character of an interpolated string).                *)
(***************************************************************************)
EXTENDS Integers, Sequences, FiniteSets, TLC

(* ---------------------------- bounds ---------------------------------- *)
\* largest number of command-line arguments
MaxArgs == 3
\* largest number of records in a multiinfo response
MaxResults == 2
\* largest number of records in a search response
MaxSearch == 3

(* ------------------------- input universes ----------------------------- *)
\* package names: one shorter than two characters, one that needs escaping
Names == { <<"a">>, <<"j", "q">>, <<"c", "+", "+">> }
Versions == { <<"1", ".", "3", "-", "2">> }
Cats == { 2, 4 }
Flags == { 0, 1, 2 }

\* type Package struct (the fields the commands read)
Packages == [Name : Names, Version : Versions, CategoryID : Cats, OutOfDate : Flags]

\* all sequences over S of length lo..hi
SeqsOf(S, lo, hi) == UNION { [1..n -> S] : n \in lo..hi }

RECURSIVE Flatten(_)
Flatten(ss) == IF ss = <<>> THEN <<>> ELSE Head(ss) \o Flatten(Tail(ss))

(* --------------------------- strings ----------------------------------- *)
\* byte value of a character (ASCII)
Ord(c) ==
  CASE c = " " -> 32
    [] c = "%" -> 37
    [] c = "+" -> 43
    [] c = "-" -> 45
    [] c = "." -> 46
    [] c = "1" -> 49
    [] c = "2" -> 50
    [] c = "3" -> 51
    [] c = "B" -> 66
    [] c = "a" -> 97
    [] c = "c" -> 99
    [] c = "j" -> 106
    [] c = "q" -> 113

\* Go's string < : byte-wise lexicographic, a proper prefix is smaller
RECURSIVE StrLess(_, _)
StrLess(a, b) ==
  IF b = <<>> THEN FALSE
  ELSE IF a = <<>> THEN TRUE
  ELSE IF Ord(Head(a)) < Ord(Head(b)) THEN TRUE
  ELSE IF Ord(Head(a)) > Ord(Head(b)) THEN FALSE
  ELSE StrLess(Tail(a), Tail(b))

\* url.QueryEscape on one byte: unreserved bytes stay, space becomes "+",
\* anything else becomes %XX (of the characters used here, "+" and "%")
EscapeByte(c) ==
  IF c \in { "a", "c", "j", "q", "1", "2", "3", "B", "-", "." } THEN << c >>
  ELSE IF c = " " THEN << "+" >>
  ELSE IF c = "+" THEN << "%", "2", "B" >>
  ELSE << "%", "2", "5" >>

QueryEscape(s) == Flatten([i \in 1..Len(s) |-> EscapeByte(s[i])])

(* ----------------------------- state ----------------------------------- *)
VARIABLES
  cmd,       \* the subcommand that runs
  args,      \* its arguments
  netErr,    \* what the next aurRequest will meet: "nil", "transport", "decode"
  reply,     \* the records the server's response holds
  fFails,    \* the package names for which multiInfo's parameter f returns an error
  pc,        \* position in the command
  requests,  \* the request strings handed to aurRequest so far
  results,   \* results.Results after a successful decode
  arg,       \* loop index over args
  calls,     \* invocations of f so far: [arg |-> index, pkg |-> record]
  stdout,    \* lines printed so far
  err,       \* multiInfo's return value, "none" until it returns
  exit       \* how the process ended: "running", "ok", "exit1", "panic"

vars == << cmd, args, netErr, reply, fFails, pc, requests, results, arg, calls,
           stdout, err, exit >>

categories == [ i \in 1..20 |->
  CASE i = 1 -> "none" [] i = 2 -> "daemons" [] i = 3 -> "devel"
    [] i = 4 -> "editors" [] i = 5 -> "emulators" [] i = 6 -> "games"
    [] i = 7 -> "gnome" [] i = 8 -> "18n" [] i = 9 -> "kde" [] i = 10 -> "lib"
    [] i = 11 -> "modules" [] i = 12 -> "multimedia" [] i = 13 -> "network"
    [] i = 14 -> "office" [] i = 15 -> "science" [] i = 16 -> "system"
    [] i = 17 -> "x11" [] i = 18 -> "xfce" [] i = 19 -> "kernels"
    [] OTHER -> "fonts" ]

NotFoundError == "Some packages were not found"
CallbackError == "callback error"

(* ------------------------- info / multiInfo ---------------------------- *)
\* the records a multiinfo response is drawn from: one category, and a
\* staleness flag that is 0 or a nonzero value other than 1
InfoPackages == { p \in Packages : p.CategoryID = 2 /\ p.OutOfDate # 1 }

\* InfoVersionLine with the staleness test inverted
InfoVersionLineInverted(thispkg) ==
  << "ESC[1m", "Version         : ", "ESC[0m" >> \o thispkg.Version
    \o (IF thispkg.OutOfDate = 0 THEN << " [out of date]" >> ELSE << >>)

\* the version line of the info callback
InfoVersionLine(thispkg) ==
  << "ESC[1m", "Version         : ", "ESC[0m" >> \o thispkg.Version
    \o (IF thispkg.OutOfDate # 0 THEN << " [out of date]" >> ELSE << >>)

\* the info callback's output (the lines of the fields the model carries)
InfoBlock(thispkg) ==
  << << "ESC[1m", "Category        : ", "ESC[0m", categories[thispkg.CategoryID] >>,
     << "ESC[1m", "Name            : ", "ESC[0m" >> \o thispkg.Name,
     InfoVersionLine(thispkg),
     << >> >>

NotFoundLine(name) ==
  << "ESC[1;31m", "error:", "ESC[0m", " package '" >> \o name \o << "' was not found" >>

\* FirstMatch with the scan started one record late
FirstMatchFromSecond(rs, name) ==
  IF \E i \in 2..Len(rs) : rs[i].Name = name
  THEN CHOOSE i \in 2..Len(rs) :
         /\ rs[i].Name = name
         /\ \A j \in 2..(i - 1) : rs[j].Name # name
  ELSE 0

\* index of the first record of rs named name, 0 if there is none
FirstMatch(rs, name) ==
  IF \E i \in 1..Len(rs) : rs[i].Name = name
  THEN CHOOSE i \in 1..Len(rs) :
         /\ rs[i].Name = name
         /\ \A j \in 1..(i - 1) : rs[j].Name # name
  ELSE 0

InitInfo ==
  /\ cmd = "info"
  /\ args \in SeqsOf(Names, 0, MaxArgs)
  /\ netErr \in { "nil", "transport", "decode" }
  /\ IF netErr = "nil" /\ args # << >>
     THEN reply \in SeqsOf(InfoPackages, 0, MaxResults)
     ELSE reply = << >>
  /\ fFails \in { {} } \cup { { n } : n \in Names }
  /\ pc = "start"
  /\ requests = << >>
  /\ results = << >>
  /\ arg = 0
  /\ calls = << >>
  /\ stdout = << >>
  /\ err = "none"
  /\ exit = "running"

\* info.Run: the argument check
InfoStart ==
  /\ cmd = "info" /\ pc = "start"
  /\ IF Len(args) = 0
     THEN /\ pc' = "done"
          /\ exit' = "exit1"
     ELSE /\ pc' = "request"
          /\ UNCHANGED exit
  /\ UNCHANGED << cmd, args, netErr, reply, fFails, requests, results, arg, calls,
                  stdout, err >>

\* MultiInfoRequest without the call of url.QueryEscape
MultiInfoRequestUnescaped(as) ==
  << "/rpc.php?type=multiinfo" >>
    \o Flatten([i \in 1..Len(as) |-> << "&arg[]=" >> \o as[i]])

\* the request string multiInfo builds
MultiInfoRequest(as) ==
  << "/rpc.php?type=multiinfo" >>
    \o Flatten([i \in 1..Len(as) |-> << "&arg[]=" >> \o QueryEscape(as[i])])

\* MultiInfoRequestStep without the check of aurRequest's error
MultiInfoRequestStepUnchecked ==
  /\ cmd = "info" /\ pc = "request"
  /\ requests' = Append(requests, MultiInfoRequest(args))
  /\ results' = reply
  /\ arg' = 1
  /\ pc' = "loop"
  /\ UNCHANGED << cmd, args, netErr, reply, fFails, calls, stdout, exit, err >>

\* multiInfo up to the error check after aurRequest
MultiInfoRequestStep ==
  /\ cmd = "info" /\ pc = "request"
  /\ requests' = Append(requests, MultiInfoRequest(args))
  /\ IF netErr # "nil"
     THEN /\ err' = netErr
          /\ pc' = "returned"
          /\ UNCHANGED << results, arg >>
     ELSE /\ results' = reply
          /\ arg' = 1
          /\ pc' = "loop"
          /\ UNCHANGED err
  /\ UNCHANGED << cmd, args, netErr, reply, fFails, calls, stdout, exit >>

\* MultiInfoLoop walking the response instead of the arguments: f on every
\* record that was asked for, in response order, then the diagnostics
MultiInfoLoopResponseOrder ==
  /\ cmd = "info" /\ pc = "loop"
  /\ LET asked == { i \in 1..Len(results) : \E a \in 1..Len(args) : args[a] = results[i].Name }
         ArgOf(i) == CHOOSE a \in 1..Len(args) : args[a] = results[i].Name
         call(i) == IF i \in asked THEN << [arg |-> ArgOf(i), pkg |-> results[i]] >> ELSE << >>
         block(i) == IF i \in asked THEN InfoBlock(results[i]) ELSE << >>
         diag(a) == IF \E i \in 1..Len(results) : results[i].Name = args[a]
                    THEN << >> ELSE << NotFoundLine(args[a]) >>
     IN /\ calls' = Flatten([i \in 1..Len(results) |-> call(i)])
        /\ stdout' = Flatten([i \in 1..Len(results) |-> block(i)])
                       \o Flatten([a \in 1..Len(args) |-> diag(a)])
  /\ err' = IF Len(results) < Len(args) THEN NotFoundError ELSE "nil"
  /\ pc' = "returned"
  /\ UNCHANGED << cmd, args, netErr, reply, fFails, requests, results, exit, arg >>

\* MultiInfoLoop without the return on the callback's error
MultiInfoLoopNoReturn ==
  /\ cmd = "info" /\ pc = "loop"
  /\ IF arg > Len(args)
     THEN /\ err' = IF Len(results) < Len(args) THEN NotFoundError ELSE "nil"
          /\ pc' = "returned"
          /\ UNCHANGED << arg, calls, stdout >>
     ELSE LET m == FirstMatch(results, args[arg]) IN
          IF m = 0
          THEN /\ stdout' = Append(stdout, NotFoundLine(args[arg]))
               /\ arg' = arg + 1
               /\ UNCHANGED << calls, err, pc >>
          ELSE /\ calls' = Append(calls, [arg |-> arg, pkg |-> results[m]])
               /\ stdout' = IF results[m].Name \in fFails THEN stdout
                            ELSE stdout \o InfoBlock(results[m])
               /\ arg' = arg + 1
               /\ UNCHANGED << err, pc >>
  /\ UNCHANGED << cmd, args, netErr, reply, fFails, requests, results, exit >>

\* one iteration of multiInfo's loop over args, and the return after the last
MultiInfoLoop ==
  /\ cmd = "info" /\ pc = "loop"
  /\ IF arg > Len(args)
     THEN /\ err' = IF Len(results) < Len(args) THEN NotFoundError ELSE "nil"
          /\ pc' = "returned"
          /\ UNCHANGED << arg, calls, stdout >>
     ELSE LET m == FirstMatch(results, args[arg]) IN
          IF m = 0
          THEN /\ stdout' = Append(stdout, NotFoundLine(args[arg]))
               /\ arg' = arg + 1
               /\ UNCHANGED << calls, err, pc >>
          ELSE /\ calls' = Append(calls, [arg |-> arg, pkg |-> results[m]])
               /\ IF results[m].Name \in fFails
                  THEN /\ err' = CallbackError
                       /\ pc' = "returned"
                       /\ UNCHANGED << arg, stdout >>
                  ELSE /\ stdout' = stdout \o InfoBlock(results[m])
                       /\ arg' = arg + 1
                       /\ UNCHANGED << err, pc >>
  /\ UNCHANGED << cmd, args, netErr, reply, fFails, requests, results, exit >>

\* info.Run after multiInfo returned
InfoExit ==
  /\ cmd = "info" /\ pc = "returned"
  /\ exit' = IF err # "nil" THEN "exit1" ELSE "ok"
  /\ pc' = "done"
  /\ UNCHANGED << cmd, args, netErr, reply, fFails, requests, results, arg, calls,
                  stdout, err >>

NextInfo == InfoStart \/ MultiInfoRequestStep \/ MultiInfoLoop \/ InfoExit

SpecInfo == InitInfo /\ [][NextInfo]_vars

(* ------------------------------ search --------------------------------- *)
SearchTerms == { <<"j", "q">> }

\* the records a search response is drawn from
SearchPackages == { p \in Packages : p.Name \in { <<"a">>, <<"j", "q">> } }

\* Less with the category comparison turned around
LessCategoryDescending(a, b) ==
  IF a.CategoryID > b.CategoryID THEN TRUE
  ELSE IF a.CategoryID = b.CategoryID /\ StrLess(a.Name, b.Name) THEN TRUE
  ELSE FALSE

\* Less without the comparison of names
LessCategoryOnly(a, b) == a.CategoryID < b.CategoryID

\* PackageList.Less on two records
Less(a, b) ==
  IF a.CategoryID < b.CategoryID THEN TRUE
  ELSE IF a.CategoryID = b.CategoryID /\ StrLess(a.Name, b.Name) THEN TRUE
  ELSE FALSE

\* the rearrangements of 1..n
Perms(n) == { f \in [1..n -> 1..n] : { f[i] : i \in 1..n } = 1..n }

\* sort.Sort: the outcomes its contract allows, the rearrangements of rs in
\* which no element is Less than an earlier one (the sort is not guaranteed
\* to be stable, so equal elements may come out in any order)
SortOutcomes(rs) ==
  { t \in { [i \in 1..Len(rs) |-> rs[f[i]]] : f \in Perms(Len(rs)) } :
      \A i, j \in 1..Len(rs) : i < j => ~Less(t[j], t[i]) }

\* the two lines search prints for one record
SearchLines(p) ==
  << << "ESC[1;35m", "aur/", categories[p.CategoryID], "/", "ESC[1;37m" >>
        \o p.Name \o << " " >>
        \o << (IF p.OutOfDate = 0 THEN "ESC[1;32m" ELSE "ESC[1;31m") >>
        \o p.Version,
     << "    ", "ESC[0m" >> >>

SearchRequest(term) == << "/rpc.php?type=search&arg=" >> \o QueryEscape(term)

InitSearch ==
  /\ cmd = "search"
  /\ args \in SeqsOf(SearchTerms, 0, 2)
  /\ netErr \in { "nil", "transport", "decode" }
  /\ IF netErr = "nil" /\ Len(args) = 1
     THEN reply \in SeqsOf(SearchPackages, 0, MaxSearch)
     ELSE reply = << >>
  /\ fFails = {}
  /\ pc = "start"
  /\ requests = << >>
  /\ results = << >>
  /\ arg = 0
  /\ calls = << >>
  /\ stdout = << >>
  /\ err = "none"
  /\ exit = "running"

\* search.Run: the argument check
SearchStart ==
  /\ cmd = "search" /\ pc = "start"
  /\ IF Len(args) # 1
     THEN /\ pc' = "done"
          /\ exit' = "exit1"
     ELSE /\ pc' = "request"
          /\ UNCHANGED exit
  /\ UNCHANGED << cmd, args, netErr, reply, fFails, requests, results, arg, calls,
                  stdout, err >>

\* search.Run: the request, the panic on its error, and the sort
SearchFetchSort ==
  /\ cmd = "search" /\ pc = "request"
  /\ requests' = Append(requests, SearchRequest(args[1]))
  /\ IF netErr # "nil"
     THEN /\ exit' = "panic"
          /\ pc' = "done"
          /\ UNCHANGED results
     ELSE /\ results' \in SortOutcomes(reply)
          /\ pc' = "print"
          /\ UNCHANGED exit
  /\ UNCHANGED << cmd, args, netErr, reply, fFails, arg, calls, stdout, err >>

\* search.Run: the loop that prints the sorted records
SearchPrint ==
  /\ cmd = "search" /\ pc = "print"
  /\ stdout' = Flatten([i \in 1..Len(results) |-> SearchLines(results[i])])
  /\ exit' = "ok"
  /\ pc' = "done"
  /\ UNCHANGED << cmd, args, netErr, reply, fFails, requests, results, arg, calls,
                  err >>

NextSearch == SearchStart \/ SearchFetchSort \/ SearchPrint

SpecSearch == InitSearch /\ [][NextSearch]_vars

(* ------------------------ tarball / pkgbuild --------------------------- *)
\* whether the Go slice expression s[lo:hi] is in range (it panics otherwise)
SliceInRange(s, lo, hi) == 0 <= lo /\ lo <= hi /\ hi <= Len(s)

\* s[lo:hi]
Slice(s, lo, hi) == SubSeq(s, lo + 1, hi)

TarballLine(s) ==
  << "https://aur.archlinux.org/packages/" >> \o Slice(s, 0, 2) \o << "/" >> \o s
    \o << "/" >> \o s \o << ".tar.gz" >>

PkgbuildURL(s) ==
  << "https://aur.archlinux.org/packages/" >> \o Slice(s, 0, 2) \o << "/" >> \o s
    \o << "/PKGBUILD" >>

InitUrl ==
  /\ cmd \in { "tarball", "pkgbuild" }
  /\ args \in SeqsOf(Names, 0, MaxArgs)
  /\ netErr = "nil"
  /\ reply = << >>
  /\ fFails = {}
  /\ pc = "start"
  /\ requests = << >>
  /\ results = << >>
  /\ arg = 0
  /\ calls = << >>
  /\ stdout = << >>
  /\ err = "none"
  /\ exit = "running"

\* tarball.Run and pkgbuild.Run: the argument check
UrlStart ==
  /\ cmd \in { "tarball", "pkgbuild" } /\ pc = "start"
  /\ IF Len(args) = 0
     THEN /\ pc' = "done"
          /\ exit' = "exit1"
          /\ UNCHANGED arg
     ELSE /\ pc' = "loop"
          /\ arg' = 1
          /\ UNCHANGED exit
  /\ UNCHANGED << cmd, args, netErr, reply, fFails, requests, results, calls,
                  stdout, err >>

\* tarball.Run: one iteration of the loop over args, and the end of the loop
TarballLoop ==
  /\ cmd = "tarball" /\ pc = "loop"
  /\ IF arg > Len(args)
     THEN /\ exit' = "ok"
          /\ pc' = "done"
          /\ UNCHANGED << arg, stdout >>
     ELSE IF ~SliceInRange(args[arg], 0, 2)
     THEN /\ exit' = "panic"
          /\ pc' = "done"
          /\ UNCHANGED << arg, stdout >>
     ELSE /\ stdout' = Append(stdout, TarballLine(args[arg]))
          /\ arg' = arg + 1
          /\ UNCHANGED << exit, pc >>
  /\ UNCHANGED << cmd, args, netErr, reply, fFails, requests, results, calls, err >>

\* pkgbuild.Run: one iteration of the loop over args (printPKGBUILD either
\* prints the body or fails in http.Get or ReadAll), and the end of the loop
PkgbuildLoop ==
  /\ cmd = "pkgbuild" /\ pc = "loop"
  /\ IF arg > Len(args)
     THEN /\ exit' = "ok"
          /\ pc' = "done"
          /\ UNCHANGED << arg, stdout, requests >>
     ELSE IF ~SliceInRange(args[arg], 0, 2)
     THEN /\ exit' = "panic"
          /\ pc' = "done"
          /\ UNCHANGED << arg, stdout, requests >>
     ELSE /\ requests' = Append(requests, PkgbuildURL(args[arg]))
          /\ \E failed \in BOOLEAN :
               IF failed
               THEN /\ exit' = "exit1"
                    /\ pc' = "done"
                    /\ UNCHANGED << arg, stdout >>
               ELSE /\ stdout' = Append(stdout, << "<body of>" >> \o PkgbuildURL(args[arg]))
                    /\ arg' = arg + 1
                    /\ UNCHANGED << exit, pc >>
  /\ UNCHANGED << cmd, args, netErr, reply, fFails, results, calls, err >>

NextUrl == UrlStart \/ TarballLoop \/ PkgbuildLoop

SpecUrl == InitUrl /\ [][NextUrl]_vars

\* the two commands that render records, as main wires them: the callback
\* info hands to multiInfo always returns nil
InitRender == (InitInfo /\ fFails = {}) \/ InitSearch

NextRender == NextInfo \/ NextSearch

SpecRender == InitRender /\ [][NextRender]_vars

(* ======================= properties of multiInfo ======================= *)
Distinct(s) == \A i, j \in 1..Len(s) : s[i] = s[j] => i = j

DistinctNames(rs) == \A i, j \in 1..Len(rs) : rs[i].Name = rs[j].Name => i = j

\* the response holds a record named like the a-th argument
Matched(a) == \E r \in 1..Len(results) : results[r].Name = args[a]

\* multiInfo was called and has returned
MultiInfoReturned == cmd = "info" /\ pc \in { "returned", "done" } /\ Len(args) > 0

Decoded == netErr = "nil"

NoCallbackFailed == \A k \in 1..Len(calls) : calls[k].pkg.Name \notin fFails

IndexOf(s, x) == CHOOSE i \in 1..Len(s) : s[i] = x

CallsFor(a) == Cardinality({ k \in 1..Len(calls) : calls[k].arg = a })

DiagsFor(name) == Cardinality({ l \in 1..Len(stdout) : stdout[l] = NotFoundLine(name) })

\* C1: with distinct requested names, f is invoked on matched records in the
\* order of the requested names, whatever the order of the response: every
\* record f gets is named like a requested name, two invocations are in the
\* order of their names in args, and once multiInfo has returned without a
\* callback failure, of two matched names the earlier one was handled first.
CallbackOrderFollowsArgs ==
  (cmd = "info" /\ Distinct(args)) =>
    /\ \A k \in 1..Len(calls) : \E a \in 1..Len(args) : args[a] = calls[k].pkg.Name
    /\ \A k, l \in 1..Len(calls) :
         k < l => IndexOf(args, calls[k].pkg.Name) < IndexOf(args, calls[l].pkg.Name)
    /\ (MultiInfoReturned /\ Decoded /\ NoCallbackFailed) =>
         \A a, b \in 1..Len(args) :
           (a < b /\ Matched(a) /\ Matched(b)) =>
             \E k, l \in 1..Len(calls) :
               k < l /\ calls[k].pkg.Name = args[a] /\ calls[l].pkg.Name = args[b]

\* two callbacks were made for a response that lists the two records the
\* other way round
CallbackOrderWitness ==
  /\ MultiInfoReturned /\ Distinct(args)
  /\ Len(calls) = 2 /\ Len(results) = 2
  /\ results[1].Name = calls[2].pkg.Name
  /\ results[2].Name = calls[1].pkg.Name
  /\ results[1].Name # results[2].Name

\* C2: for distinct requested names and a decoded response with pairwise
\* distinct record names, when no callback fails multiInfo returns "Some
\* packages were not found" exactly if some requested name has no record of
\* that name, and nil exactly if every requested name was matched.
NotFoundIffSomeUnmatched ==
  (MultiInfoReturned /\ Decoded /\ Distinct(args) /\ DistinctNames(results)
     /\ NoCallbackFailed) =>
    /\ (err = NotFoundError) <=> (\E a \in 1..Len(args) : ~Matched(a))
    /\ (err = "nil") <=> (\A a \in 1..Len(args) : Matched(a))

\* C3: when no callback fails, multiInfo reports no result while it is still
\* going through the names, and when it has returned every matched position
\* of args got exactly one callback (with a record of its name), every
\* unmatched one none, and every name has exactly as many "not found" lines
\* as it has unmatched positions.
EveryNameProcessedOnce ==
  cmd = "info" =>
    /\ (pc \in { "start", "request", "loop" }) => err = "none"
    /\ (MultiInfoReturned /\ Decoded /\ NoCallbackFailed) =>
         /\ err \in { "nil", NotFoundError }
         /\ \A a \in 1..Len(args) :
              /\ CallsFor(a) = (IF Matched(a) THEN 1 ELSE 0)
              /\ \A k \in 1..Len(calls) : calls[k].arg = a => calls[k].pkg.Name = args[a]
         /\ \A n \in Names :
              DiagsFor(n) = Cardinality({ a \in 1..Len(args) : args[a] = n /\ ~Matched(a) })

\* requested [X, Y, Z], the response holds Z and Y: X is reported, Y and Z get
\* their callbacks, and the aggregate error is returned
EveryNameProcessedWitness ==
  /\ MultiInfoReturned /\ Decoded /\ NoCallbackFailed
  /\ Len(args) = 3 /\ Distinct(args)
  /\ ~Matched(1) /\ Matched(2) /\ Matched(3)
  /\ Len(results) = 2 /\ results[1].Name = args[3] /\ results[2].Name = args[2]
  /\ Len(calls) = 2 /\ DiagsFor(args[1]) = 1
  /\ err = NotFoundError

\* C7: when f fails on a record, that invocation is the last one, multiInfo
\* has returned the callback's error, and "not found" lines exist only for
\* the unmatched names in front of the failing one.
CallbackFailureStops ==
  cmd = "info" =>
    \A k \in 1..Len(calls) :
      calls[k].pkg.Name \in fFails =>
        /\ k = Len(calls)
        /\ pc \in { "returned", "done" }
        /\ err = CallbackError
        /\ \A l \in 1..Len(calls) : calls[l].arg <= calls[k].arg
        /\ \A n \in Names :
             DiagsFor(n) = Cardinality({ a \in 1..(calls[k].arg - 1) :
                                           args[a] = n /\ ~Matched(a) })

\* f failed on the second of three names, after an unmatched first name and
\* in front of an unmatched third one
CallbackFailureWitness ==
  /\ MultiInfoReturned /\ err = CallbackError
  /\ Len(args) = 3 /\ Len(calls) = 1 /\ calls[1].arg = 2
  /\ ~Matched(1) /\ ~Matched(3)
  /\ Len(results) < Len(args)

\* url.QueryUnescape on the characters of the model
RECURSIVE QueryUnescape(_)
QueryUnescape(s) ==
  IF s = << >> THEN << >>
  ELSE IF Head(s) = "+" THEN << " " >> \o QueryUnescape(Tail(s))
  ELSE IF Head(s) = "%" /\ Len(s) >= 3
  THEN << (IF SubSeq(s, 2, 3) = << "2", "B" >> THEN "+" ELSE "%") >>
         \o QueryUnescape(SubSeq(s, 4, Len(s)))
  ELSE << Head(s) >> \o QueryUnescape(Tail(s))

ArgMarks(req) == { p \in 1..Len(req) : req[p] = "&arg[]=" }

NthMark(req, i) ==
  CHOOSE p \in ArgMarks(req) : Cardinality({ q \in ArgMarks(req) : q < p }) = i - 1

\* the value of the i-th arg[] parameter of req
ArgParam(req, i) ==
  SubSeq(req, NthMark(req, i) + 1,
         IF i < Cardinality(ArgMarks(req)) THEN NthMark(req, i + 1) - 1 ELSE Len(req))

\* C8: one call of multiInfo hands aurRequest exactly one request, a multiinfo
\* request with one arg[] parameter per requested name, in the order given,
\* each the escaped name; nothing is requested while reconciling.
OneBatchedRequest ==
  cmd = "info" =>
    /\ Len(requests) <= 1
    /\ (pc \in { "loop", "returned" } \/ (pc = "done" /\ Len(args) > 0)) =>
         /\ Len(requests) = 1
         /\ Head(requests[1]) = "/rpc.php?type=multiinfo"
         /\ Cardinality(ArgMarks(requests[1])) = Len(args)
         /\ \A i \in 1..Len(args) : QueryUnescape(ArgParam(requests[1], i)) = args[i]

\* three names, one of which needs escaping, were looked up with one request
OneBatchedRequestWitness ==
  /\ MultiInfoReturned /\ Decoded
  /\ Len(args) = 3 /\ Len(calls) >= 2
  /\ \E i \in 1..Len(args) : args[i] = << "c", "+", "+" >>
  /\ Len(requests) = 1

\* C10: when the request fails, multiInfo returns that error, f is never
\* invoked and nothing is printed; callbacks and diagnostics exist only after
\* a successfully decoded response.
RequestFailureSkipsReconciliation ==
  cmd = "info" =>
    /\ (MultiInfoReturned /\ ~Decoded) =>
         /\ err = netErr
         /\ calls = << >>
         /\ stdout = << >>
    /\ (calls # << >> \/ stdout # << >>) => (Decoded /\ Len(requests) = 1)

\* a lookup of two names whose response could not be decoded
RequestFailureWitness ==
  /\ MultiInfoReturned /\ netErr = "decode"
  /\ Len(args) >= 2
  /\ err = "decode" /\ Len(requests) = 1

(* ====================== properties of the search sort ================== *)
\* search has fetched and sorted a response
SearchSorted == cmd = "search" /\ pc \in { "print", "done" } /\ Len(args) = 1 /\ Decoded

Count(rs, p) == Cardinality({ i \in 1..Len(rs) : rs[i] = p })

SameKey(a, b) == a.CategoryID = b.CategoryID /\ a.Name = b.Name

Keys(rs) == [i \in 1..Len(rs) |-> << rs[i].CategoryID, rs[i].Name >>]

\* C4: the list search prints is a rearrangement of the response in which, of
\* any two records, the earlier one has the smaller category, or the same
\* category and a name that is not greater; the records are printed in that
\* order.
SearchOutputSorted ==
  SearchSorted =>
    /\ Len(results) = Len(reply)
    /\ \A p \in Packages : Count(results, p) = Count(reply, p)
    /\ \A i, j \in 1..Len(results) :
         i < j =>
           \/ results[i].CategoryID < results[j].CategoryID
           \/ /\ results[i].CategoryID = results[j].CategoryID
              /\ (results[i].Name = results[j].Name
                    \/ StrLess(results[i].Name, results[j].Name))
    /\ pc = "done" =>
         /\ Len(stdout) = 2 * Len(results)
         /\ \A i \in 1..Len(results) :
              /\ stdout[2 * i - 1][3] = categories[results[i].CategoryID]
              /\ SubSeq(stdout[2 * i - 1], 6, 5 + Len(results[i].Name)) = results[i].Name

\* three records were printed in another order than they came in, and one
\* with the smaller name but the larger category was moved behind another
SearchOutputSortedWitness ==
  /\ SearchSorted /\ pc = "done" /\ exit = "ok"
  /\ Len(results) = 3 /\ results # reply
  /\ StrLess(reply[1].Name, reply[2].Name) /\ reply[1].CategoryID > reply[2].CategoryID

\* rs2 is rs1 rearranged so that records with the same category and name
\* keep their relative order
TiesInEncounterOrder(rs1, rs2) ==
  \E f \in Perms(Len(rs1)) :
    /\ rs2 = [i \in 1..Len(rs1) |-> rs1[f[i]]]
    /\ \A i, j \in 1..Len(rs1) : (i < j /\ SameKey(rs2[i], rs2[j])) => f[i] < f[j]

UrlConstructionNeverPanics ==
  cmd \in { "tarball", "pkgbuild" } => exit # "panic"

(* ===================== properties of the rendering ===================== *)
OutOfDateSuffix == " [out of date]"

EscapeCodes == { "ESC[0m", "ESC[1m", "ESC[1;31m", "ESC[1;32m", "ESC[1;35m", "ESC[1;37m" }

IsVersionLine(line) == Len(line) >= 2 /\ line[2] = "Version         : "

IsEscape(t) == t \in EscapeCodes

IsSuccessfulCall(c) == c.pkg.Name \notin fFails

\* C6: in the info output the version line of a record ends in
\* " [out of date]" exactly if OutOfDate is not 0, with the same escape codes
\* either way; in the search output the version follows the red code exactly
\* if OutOfDate is not 0 and the green one otherwise, and no line holds the
\* suffix.
StalenessSignal ==
  /\ cmd = "info" =>
       LET vl == SelectSeq(stdout, IsVersionLine)
           ok == SelectSeq(calls, IsSuccessfulCall)
       IN /\ Len(vl) = Len(ok)
          /\ \A k \in 1..Len(vl) :
               LET stale == ok[k].pkg.OutOfDate # 0
                   plain == << "ESC[1m", "Version         : ", "ESC[0m" >> \o ok[k].pkg.Version
               IN /\ (vl[k][Len(vl[k])] = OutOfDateSuffix) <=> stale
                  /\ vl[k] = IF stale THEN Append(plain, OutOfDateSuffix) ELSE plain
                  /\ SelectSeq(vl[k], IsEscape) = << "ESC[1m", "ESC[0m" >>
  /\ (cmd = "search" /\ pc = "done" /\ exit = "ok") =>
       /\ Len(stdout) = 2 * Len(results)
       /\ \A i \in 1..Len(results) :
            LET line == stdout[2 * i - 1]
                c == 7 + Len(results[i].Name)
            IN /\ line[c] = "ESC[1;31m" <=> results[i].OutOfDate # 0
               /\ line[c] = "ESC[1;32m" <=> results[i].OutOfDate = 0
               /\ SubSeq(line, c + 1, Len(line)) = results[i].Version
       /\ \A l \in 1..Len(stdout) : \A t \in 1..Len(stdout[l]) : stdout[l][t] # OutOfDateSuffix

\* info printed a record that is out of date and one that is not
StalenessSignalWitness ==
  /\ MultiInfoReturned /\ Len(calls) = 2 /\ NoCallbackFailed
  /\ calls[1].pkg.OutOfDate = 2 /\ calls[2].pkg.OutOfDate = 0
  /\ Len(SelectSeq(stdout, IsVersionLine)) = 2

====
